---- MODULE Spec2Model ----
(***************************************************************************)
(* Event-study engine of stock-analysis-app.cpp: Stock, Group, MarketData  *)
(* and StockAnalyzer, as a state machine.                                  *)
(*                                                                         *)
(* Numbers.  The program computes in IEEE doubles.  The model computes in  *)
(* exact rationals [num, den] (den > 0, lowest terms).  All inputs of the  *)
(* model are small integers, prices are positive, so no division by zero   *)
(* (inf / nan in the program) occurs inside the modelled domain.           *)
(***************************************************************************)
EXTENDS Integers, Sequences, FiniteSets

(***************************************************************************)
(* Bounds of the model.                                                    *)
(***************************************************************************)
MaxPrices == 3          \* longest price series of the unit specification
MaxEPS == 21            \* EPS fields range over -MaxEPS .. MaxEPS
MaxFileLen == 2         \* records in one stocks file
MaxRetrieve == 2        \* calls of retrieveHistoricalData
MaxRecalc == 1          \* direct calls of calculateGroupMetrics
MaxSampleSize == 1      \* largest sample size typed at the menu
MaxIterations == 2      \* largest iteration count typed at the menu

(***************************************************************************)
(* Program constants.                                                      *)
(***************************************************************************)
BeatThreshold == 5      \* surprise > 5.0  -> "Beat"
MissThreshold == -5     \* surprise < -5.0 -> "Miss"
Percent == 100          \* ... * 100.0

(***************************************************************************)
(* Exact rational arithmetic standing for double arithmetic.               *)
(***************************************************************************)
Abs(x) == IF x < 0 THEN -x ELSE x

RECURSIVE GCD(_, _)
GCD(a, b) == IF b = 0 THEN a ELSE GCD(b, a % b)

Norm(n, d) ==
    LET s == IF d < 0 THEN -1 ELSE 1
        g == GCD(Abs(n), Abs(d))
    IN  [num |-> (s * n) \div g, den |-> (s * d) \div g]

FromInt(i) == [num |-> i, den |-> 1]
Zero == FromInt(0)
RAdd(a, b) == Norm(a.num * b.den + b.num * a.den, a.den * b.den)
RSub(a, b) == Norm(a.num * b.den - b.num * a.den, a.den * b.den)
RMul(a, b) == Norm(a.num * b.num, a.den * b.den)
RDiv(a, b) == Norm(a.num * b.den, a.den * b.num)      \* b # 0
RGt(a, b) == a.num * b.den > b.num * a.den
RLt(a, b) == a.num * b.den < b.num * a.den

Min(a, b) == IF a < b THEN a ELSE b
Range(s) == {s[i] : i \in DOMAIN s}
Count(s, x) == Cardinality({i \in DOMAIN s : s[i] = x})

(***************************************************************************)
(* class Stock.  A stock is the record                                     *)
(*   [epsEstimate, actualEPS, prices, returns, abnormalReturns];           *)
(* its symbol is its key in stocksMap, earningsDate takes no part in any   *)
(* computation.  EPS fields and prices are integers, returns rationals.    *)
(***************************************************************************)
Stock(eps, actual) ==
    [epsEstimate |-> eps, actualEPS |-> actual,
     prices |-> << >>, returns |-> << >>, abnormalReturns |-> << >>]

\* for (size_t i = 1; i < prices.size(); i++) returns.push_back(...)
\* i is the 0-based index of the source; prices[i] there is prices[i + 1] here.
RECURSIVE ReturnsLoop(_, _, _)
ReturnsLoop(prices, i, returns) ==
    IF i < Len(prices)
    THEN ReturnsLoop(prices, i + 1,
             Append(returns, RDiv(FromInt(prices[i + 1] - prices[i]),
                                  FromInt(prices[i]))))
    ELSE returns

\* The loop of calculateReturns dividing by prices[i] instead of prices[i-1].
RECURSIVE ReturnsLoopByCurrent(_, _, _)
ReturnsLoopByCurrent(prices, i, returns) ==
    IF i < Len(prices)
    THEN ReturnsLoopByCurrent(prices, i + 1,
             Append(returns, RDiv(FromInt(prices[i + 1] - prices[i]),
                                  FromInt(prices[i + 1]))))
    ELSE returns

calculateReturnsByCurrent(stock) ==
    [stock EXCEPT !.returns = ReturnsLoopByCurrent(stock.prices, 1, << >>)]

\* Stock::calculateReturns: returns.clear(), then the loop from i = 1.
calculateReturns(stock) ==
    [stock EXCEPT !.returns = ReturnsLoop(stock.prices, 1, << >>)]

\* for (size_t i = 0; i < returns.size() && i < marketReturns.size(); i++)
RECURSIVE AbnormalLoop(_, _, _, _)
AbnormalLoop(returns, marketReturns, i, abnormalReturns) ==
    IF i < Len(returns) /\ i < Len(marketReturns)
    THEN AbnormalLoop(returns, marketReturns, i + 1,
             Append(abnormalReturns, RSub(returns[i + 1], marketReturns[i + 1])))
    ELSE abnormalReturns

\* calculateAbnormalReturns without its abnormalReturns.clear().
calculateAbnormalReturnsNoClear(stock, marketReturns) ==
    [stock EXCEPT
        !.abnormalReturns = AbnormalLoop(stock.returns, marketReturns, 0,
                                         stock.abnormalReturns)]

\* Stock::calculateAbnormalReturns: abnormalReturns.clear(), then the loop.
calculateAbnormalReturns(stock, marketReturns) ==
    [stock EXCEPT
        !.abnormalReturns = AbnormalLoop(stock.returns, marketReturns, 0, << >>)]

\* Stock::getSurprisePercentage
getSurprisePercentage(stock) ==
    IF stock.epsEstimate # 0
    THEN RMul(RDiv(FromInt(stock.actualEPS - stock.epsEstimate),
                   FromInt(Abs(stock.epsEstimate))),
              FromInt(Percent))
    ELSE Zero

\* getGroup with >= and <= for > and <.
getGroupInclusive(stock) ==
    LET surprise == getSurprisePercentage(stock)
    IN  IF ~RLt(surprise, FromInt(BeatThreshold)) THEN "Beat"
        ELSE IF ~RGt(surprise, FromInt(MissThreshold)) THEN "Miss"
        ELSE "Meet"

\* Stock::getGroup
getGroup(stock) ==
    LET surprise == getSurprisePercentage(stock)
    IN  IF RGt(surprise, FromInt(BeatThreshold)) THEN "Beat"
        ELSE IF RLt(surprise, FromInt(MissThreshold)) THEN "Miss"
        ELSE "Meet"

(***************************************************************************)
(* class MarketData.                                                       *)
(***************************************************************************)
RECURSIVE MarketReturnsLoop(_, _, _)
MarketReturnsLoop(marketPrices, i, returns) ==
    IF i < Len(marketPrices)
    THEN MarketReturnsLoop(marketPrices, i + 1,
             Append(returns, RDiv(FromInt(marketPrices[i + 1] - marketPrices[i]),
                                  FromInt(marketPrices[i]))))
    ELSE returns

\* MarketData::calculateMarketReturns
calculateMarketReturns(marketPrices) == MarketReturnsLoop(marketPrices, 1, << >>)

(***************************************************************************)
(* class Group.  A group is the record [stocks, aar, caar]; stocks is the  *)
(* vector of Stock pointers, held here as the symbols (keys of stocksMap)  *)
(* they point to.  map is the stocksMap the pointers point into.           *)
(***************************************************************************)
Group == [stocks |-> << >>, aar |-> << >>, caar |-> << >>]

\* Group::addStock
addStock(group, symbol) == [group EXCEPT !.stocks = Append(@, symbol)]

\* std::vector<double>::resize(n, 0.0): keeps the first n elements that are
\* there and appends 0.0 only for the missing ones.
resize(v, n) == [i \in 1..n |-> IF i <= Len(v) THEN v[i] ELSE Zero]

\* for (day = 0; day < daysCount && day < stock->abnormalReturns.size(); day++)
\*     aar[day] += stock->abnormalReturns[day];
AddStockReturns(aar, daysCount, abnormalReturns) ==
    [d \in 1..Len(aar) |->
        IF d <= daysCount /\ d <= Len(abnormalReturns)
        THEN RAdd(aar[d], abnormalReturns[d])
        ELSE aar[d]]

\* for (Stock* stock : stocks) ...   (k: 1-based position in stocks)
RECURSIVE SumLoop(_, _, _, _, _)
SumLoop(map, stocks, k, daysCount, aar) ==
    IF k <= Len(stocks)
    THEN SumLoop(map, stocks, k + 1, daysCount,
                 AddStockReturns(aar, daysCount, map[stocks[k]].abnormalReturns))
    ELSE aar

\* for (day = 0; day < daysCount; day++) aar[day] /= stocks.size();
DivideAll(v, daysCount, n) ==
    [d \in 1..Len(v) |-> IF d <= daysCount THEN RDiv(v[d], FromInt(n)) ELSE v[d]]

\* Group::calculateAAR
calculateAAR(group, map) ==
    IF group.stocks = << >> THEN group
    ELSE LET daysCount == Len(map[group.stocks[1]].abnormalReturns)
             zeroed == resize(group.aar, daysCount)
             summed == SumLoop(map, group.stocks, 1, daysCount, zeroed)
         IN  [group EXCEPT
                 !.aar = DivideAll(summed, daysCount, Len(group.stocks))]

\* for (double dailyAAR : aar) { cumulative += dailyAAR; caar.push_back(cumulative); }
RECURSIVE CumulativeLoop(_, _, _, _)
CumulativeLoop(aar, d, cumulative, caar) ==
    IF d <= Len(aar)
    THEN CumulativeLoop(aar, d + 1, RAdd(cumulative, aar[d]),
                        Append(caar, RAdd(cumulative, aar[d])))
    ELSE caar

\* calculateCAAR without its caar.clear().
calculateCAARNoClear(group) ==
    [group EXCEPT !.caar = CumulativeLoop(group.aar, 1, Zero, group.caar)]

\* Group::calculateCAAR: caar.clear(), then the loop.
calculateCAAR(group) ==
    [group EXCEPT !.caar = CumulativeLoop(group.aar, 1, Zero, << >>)]

\* stocks.size() <= sampleSize compares a size_t with an int: the int is
\* converted to size_t, so a negative sampleSize becomes 2^64 + sampleSize,
\* which no vector size exceeds.
SizeLeqInt(size, i) == IF i < 0 THEN TRUE ELSE size <= i

\* The values the first sampleSize elements of a shuffled copy can take:
\* every arrangement of sampleSize of the pointers, none taken more often
\* than it stands in stocks.
Arrangements(stocks, sampleSize) ==
    {s \in [1..sampleSize -> Range(stocks)] :
        \A x \in Range(stocks) : Count(s, x) <= Count(stocks, x)}

\* Group::sampleStocks: the set of vectors the call can return (std::shuffle
\* with a random_device seed: any permutation).
sampleStocks(group, sampleSize) ==
    IF SizeLeqInt(Len(group.stocks), sampleSize)
    THEN {group.stocks}
    ELSE Arrangements(group.stocks, sampleSize)

(***************************************************************************)
(* The environment: the companies a stocks file can name, and what the     *)
(* price service holds for each symbol.                                    *)
(***************************************************************************)
\* std::map iterates its keys in ascending order.
SymbolOrder == <<"A", "B">>
Symbols == Range(SymbolOrder)

\* One decoded line of a stocks file: symbol, epsEstimate, actualEPS.
\* (20, 22) is a Beat, (20, 21) a Meet on the +5 boundary, (20, 18) a Miss.
FileRecords ==
    [symbol : Symbols, epsEstimate : {20}, actualEPS : {18, 21, 22}]

\* The stocks files: up to MaxFileLen records, each symbol at most once, in
\* the order of the symbols.
RECURSIVE FilesFrom(_, _)
FilesFrom(k, n) ==
    IF k > Len(SymbolOrder) \/ n = 0 THEN {<< >>}
    ELSE FilesFrom(k + 1, n)
         \cup {<<r>> \o f : r \in {x \in FileRecords : x.symbol = SymbolOrder[k]},
                             f \in FilesFrom(k + 1, n - 1)}

Files == FilesFrom(1, MaxFileLen)

\* The chronological adjusted closes the service holds.
Provider ==
    [s \in Symbols \cup {"SPY"} |->
        IF s = "SPY" THEN <<1, 2, 2>>
        ELSE IF s = "A" THEN <<2, 1, 2>>
        ELSE <<1, 1>>]

\* MarketData::fetchHistoricalData = parsePrices(fetchData(url)): the whole
\* series, or, when the transfer fails or the reply is no CSV, no price at all
\* (fetchData returns what was read, parsePrices drops every line std::stod
\* rejects).  startDate and endDate are not used by the source.
fetchHistoricalData(symbol) == {<< >>, Provider[symbol]}

(***************************************************************************)
(* class StockAnalyzer and the menu loop of runAnalysis.                   *)
(***************************************************************************)
VARIABLES
    stocksMap,       \* symbol -> Stock
    beatGroup,
    meetGroup,
    missGroup,
    marketPrices,
    marketReturns,
    dataLoaded,      \* local of runAnalysis
    pc,              \* "menu": at the menu prompt; "bootstrapped": at the end of
                     \* performBootstrapping; "terminated": std::terminate
    boot,            \* the arguments and locals of performBootstrapping at its
                     \* end or at its throw; NoBoot outside the call
    nRetrieve,       \* calls of retrieveHistoricalData so far
    nRecalc,         \* direct calls of calculateGroupMetrics so far
    unit             \* unit specifications: the last value a Stock method returned;
                     \* stepwise retrieval: the locals of retrieveHistoricalData

vars == <<stocksMap, beatGroup, meetGroup, missGroup, marketPrices, marketReturns,
          dataLoaded, pc, boot, nRetrieve, nRecalc, unit>>

NoBoot ==
    [called |-> FALSE, sampleSize |-> 0, iterations |-> 0, threw |-> FALSE,
     beatSamples |-> << >>, meetSamples |-> << >>, missSamples |-> << >>,
     beatCAARs |-> << >>, meetCAARs |-> << >>, missCAARs |-> << >>,
     avgBeatCAAR |-> << >>, avgMeetCAAR |-> << >>, avgMissCAAR |-> << >>,
     exported |-> FALSE]

NoUnit == [op |-> "none"]

Init ==
    /\ stocksMap = << >>
    /\ beatGroup = Group
    /\ meetGroup = Group
    /\ missGroup = Group
    /\ marketPrices = << >>
    /\ marketReturns = << >>
    /\ dataLoaded = FALSE
    /\ pc = "menu"
    /\ boot = NoBoot
    /\ nRetrieve = 0
    /\ nRecalc = 0
    /\ unit = NoUnit

\* stocksMap.emplace(symbol, Stock(...)): inserts only when the key is absent.
emplace(map, symbol, stock) ==
    IF symbol \in DOMAIN map THEN map
    ELSE [s \in DOMAIN map \cup {symbol} |-> IF s = symbol THEN stock ELSE map[s]]

\* while (std::getline(file, line)) { ... stocksMap.emplace(...) }
RECURSIVE LoadLoop(_, _, _)
LoadLoop(map, file, k) ==
    IF k <= Len(file)
    THEN LoadLoop(emplace(map, file[k].symbol,
                          Stock(file[k].epsEstimate, file[k].actualEPS)),
                  file, k + 1)
    ELSE map

\* StockAnalyzer::loadStockDataFromFile on a file that opens.
loadStockDataFromFile(map, file) == LoadLoop(map, file, 1)

\* Menu choice 1 with a file that opens.
LoadFile ==
    /\ pc = "menu"
    /\ \E file \in Files : stocksMap' = loadStockDataFromFile(stocksMap, file)
    /\ dataLoaded' = TRUE
    /\ UNCHANGED <<boot, beatGroup, meetGroup, missGroup, marketPrices, marketReturns,
                   pc, nRetrieve, nRecalc, unit>>

\* Menu choice 1 with a file that does not open: the loader returns at once,
\* runAnalysis sets dataLoaded all the same.
LoadFileFails ==
    /\ pc = "menu"
    /\ dataLoaded' = TRUE
    /\ UNCHANGED <<boot, stocksMap, beatGroup, meetGroup, missGroup, marketPrices,
                   marketReturns, pc, nRetrieve, nRecalc, unit>>

\* StockAnalyzer::calculateGroupMetrics on one group.
GroupMetrics(group, map) == calculateCAAR(calculateAAR(group, map))

\* The state the analyzer's data is in: [map, beat, meet, miss].
\* StockAnalyzer::calculateGroupMetrics
calculateGroupMetrics(a) ==
    [a EXCEPT !.beat = GroupMetrics(a.beat, a.map),
              !.meet = GroupMetrics(a.meet, a.map),
              !.miss = GroupMetrics(a.miss, a.map)]

\* The body of the loop of retrieveHistoricalData for one stock: prices are
\* what the fetch returned.
RetrieveOne(a, symbol, prices, mktReturns) ==
    LET priced == [a.map[symbol] EXCEPT !.prices = prices]
        stock == calculateAbnormalReturns(calculateReturns(priced), mktReturns)
        map == [a.map EXCEPT ![symbol] = stock]
    IN  IF getGroup(stock) = "Beat"
        THEN [a EXCEPT !.map = map, !.beat = addStock(a.beat, symbol)]
        ELSE IF getGroup(stock) = "Meet"
        THEN [a EXCEPT !.map = map, !.meet = addStock(a.meet, symbol)]
        ELSE [a EXCEPT !.map = map, !.miss = addStock(a.miss, symbol)]

\* for (auto& pair : stocksMap) ...   fetched[symbol]: what the fetch returns.
RECURSIVE RetrieveLoop(_, _, _, _)
RetrieveLoop(a, k, fetched, mktReturns) ==
    IF k <= Len(SymbolOrder)
    THEN IF SymbolOrder[k] \in DOMAIN a.map
         THEN RetrieveLoop(RetrieveOne(a, SymbolOrder[k], fetched[SymbolOrder[k]],
                                       mktReturns),
                           k + 1, fetched, mktReturns)
         ELSE RetrieveLoop(a, k + 1, fetched, mktReturns)
    ELSE a

\* StockAnalyzer::retrieveHistoricalData, given what the fetches return.
retrieveHistoricalData(a, mktReturns, fetched) ==
    calculateGroupMetrics(RetrieveLoop(a, 1, fetched, mktReturns))

Analyzer ==
    [map |-> stocksMap, beat |-> beatGroup, meet |-> meetGroup, miss |-> missGroup]

\* Menu choice 2.
RetrieveHistoricalData ==
    /\ pc = "menu"
    /\ dataLoaded
    /\ nRetrieve < MaxRetrieve
    /\ \E spy \in fetchHistoricalData("SPY") :
       \E fetched \in [DOMAIN stocksMap -> UNION {fetchHistoricalData(s) : s \in Symbols}] :
          /\ \A s \in DOMAIN stocksMap : fetched[s] \in fetchHistoricalData(s)
          /\ marketPrices' = spy
          /\ marketReturns' = calculateMarketReturns(spy)
          /\ LET a == retrieveHistoricalData(Analyzer, calculateMarketReturns(spy), fetched)
             IN  /\ stocksMap' = a.map
                 /\ beatGroup' = a.beat
                 /\ meetGroup' = a.meet
                 /\ missGroup' = a.miss
    /\ nRetrieve' = nRetrieve + 1
    /\ UNCHANGED <<boot, dataLoaded, pc, nRecalc, unit>>

\* A direct call of the public StockAnalyzer::calculateGroupMetrics.
CalculateGroupMetrics ==
    /\ pc = "menu"
    /\ nRecalc < MaxRecalc
    /\ LET a == calculateGroupMetrics(Analyzer)
       IN  /\ beatGroup' = a.beat
           /\ meetGroup' = a.meet
           /\ missGroup' = a.miss
    /\ nRecalc' = nRecalc + 1
    /\ UNCHANGED <<boot, stocksMap, marketPrices, marketReturns, dataLoaded, pc,
                   nRetrieve, unit>>

(***************************************************************************)
(* StockAnalyzer::performBootstrapping.                                    *)
(***************************************************************************)
\* Stands for std::numeric_limits<size_t>::max(): above every size here.
SizeMax == 2147483647

\* One iteration for one group: a temporary group of the sampled stocks,
\* calculateAAR, calculateCAAR, and its caar.
TempCAAR(sample, map) ==
    GroupMetrics([Group EXCEPT !.stocks = sample], map).caar

\* for (const auto& caar : CAARs) minSize = std::min(minSize, caar.size());
RECURSIVE MinSizeLoop(_, _, _)
MinSizeLoop(CAARs, i, minSize) ==
    IF i <= Len(CAARs)
    THEN MinSizeLoop(CAARs, i + 1, Min(minSize, Len(CAARs[i])))
    ELSE minSize

\* for (i = 0; i < iterations; i++)
\*     for (day = 0; day < minSize; day++) avg[day] += CAARs[i][day];
RECURSIVE SumIterations(_, _, _, _)
SumIterations(CAARs, i, iterations, avg) ==
    IF i <= iterations
    THEN SumIterations(CAARs, i + 1, iterations,
                       [day \in 1..Len(avg) |-> RAdd(avg[day], CAARs[i][day])])
    ELSE avg

\* AverageCAAR without the final avg[day] /= iterations.
AverageCAARNoDivide(CAARs, iterations) ==
    SumIterations(CAARs, 1, iterations,
                  resize(<< >>, MinSizeLoop(CAARs, 1, SizeMax)))

\* minSize, avg.resize(minSize, 0.0), the sums, avg[day] /= iterations.
AverageCAAR(CAARs, iterations) ==
    LET minSize == MinSizeLoop(CAARs, 1, SizeMax)
        summed == SumIterations(CAARs, 1, iterations, resize(<< >>, minSize))
    IN  [day \in 1..minSize |-> RDiv(summed[day], FromInt(iterations))]

\* With iterations < 0 the vectors of line 375 are asked for 2^64 + iterations
\* elements; with iterations = 0 the minimum sizes stay at SizeMax and
\* avg.resize(SizeMax, 0.0) is asked for.  Both throw std::length_error, which
\* nothing catches: the program terminates before anything is written.
BootstrapThrows(iterations) ==
    \/ iterations < 0
    \/ MinSizeLoop(<< >>, 1, SizeMax) = SizeMax /\ iterations = 0

\* The locals of a call that runs to its end.  exported: the averages were
\* written to bootstrapped_caar.csv (the file is taken to open).
performBootstrapping(sampleSize, iterations, beatSamples, meetSamples, missSamples) ==
    LET beatCAARs == [i \in 1..iterations |-> TempCAAR(beatSamples[i], stocksMap)]
        meetCAARs == [i \in 1..iterations |-> TempCAAR(meetSamples[i], stocksMap)]
        missCAARs == [i \in 1..iterations |-> TempCAAR(missSamples[i], stocksMap)]
    IN  [called |-> TRUE, sampleSize |-> sampleSize, iterations |-> iterations,
         threw |-> FALSE,
         beatSamples |-> beatSamples, meetSamples |-> meetSamples,
         missSamples |-> missSamples,
         beatCAARs |-> beatCAARs, meetCAARs |-> meetCAARs, missCAARs |-> missCAARs,
         avgBeatCAAR |-> AverageCAAR(beatCAARs, iterations),
         avgMeetCAAR |-> AverageCAAR(meetCAARs, iterations),
         avgMissCAAR |-> AverageCAAR(missCAARs, iterations),
         exported |-> TRUE]

\* Menu choice 7, a call that throws.
BootstrappingThrows ==
    /\ pc = "menu"
    /\ dataLoaded
    /\ \E sampleSize \in (-1)..MaxSampleSize, iterations \in (-1)..MaxIterations :
          /\ BootstrapThrows(iterations)
          /\ boot' = [NoBoot EXCEPT !.called = TRUE, !.sampleSize = sampleSize,
                                    !.iterations = iterations, !.threw = TRUE]
    /\ pc' = "terminated"
    /\ UNCHANGED <<stocksMap, beatGroup, meetGroup, missGroup, marketPrices,
                   marketReturns, dataLoaded, nRetrieve, nRecalc, unit>>

\* Menu choice 7 with the temporary groups of the iterations being the
\* analyzer's own groups: the last sample becomes the member list, and
\* calculateAAR and calculateCAAR run on the group itself.
PerformBootstrappingInPlace ==
    /\ pc = "menu"
    /\ dataLoaded
    /\ \E sampleSize \in (-1)..MaxSampleSize, iterations \in (-1)..MaxIterations :
          /\ ~BootstrapThrows(iterations)
          /\ \E beatSamples \in [1..iterations -> sampleStocks(beatGroup, sampleSize)],
                meetSamples \in [1..iterations -> sampleStocks(meetGroup, sampleSize)],
                missSamples \in [1..iterations -> sampleStocks(missGroup, sampleSize)] :
                /\ boot' = performBootstrapping(sampleSize, iterations, beatSamples,
                                                meetSamples, missSamples)
                /\ beatGroup' = GroupMetrics([beatGroup EXCEPT
                                     !.stocks = beatSamples[iterations]], stocksMap)
                /\ meetGroup' = GroupMetrics([meetGroup EXCEPT
                                     !.stocks = meetSamples[iterations]], stocksMap)
                /\ missGroup' = GroupMetrics([missGroup EXCEPT
                                     !.stocks = missSamples[iterations]], stocksMap)
    /\ pc' = "bootstrapped"
    /\ UNCHANGED <<stocksMap, marketPrices, marketReturns, dataLoaded, nRetrieve,
                   nRecalc, unit>>

\* Menu choice 7, a call that runs to its end.
PerformBootstrapping ==
    /\ pc = "menu"
    /\ dataLoaded
    /\ \E sampleSize \in (-1)..MaxSampleSize, iterations \in (-1)..MaxIterations :
          /\ ~BootstrapThrows(iterations)
          /\ \E beatSamples \in [1..iterations -> sampleStocks(beatGroup, sampleSize)],
                meetSamples \in [1..iterations -> sampleStocks(meetGroup, sampleSize)],
                missSamples \in [1..iterations -> sampleStocks(missGroup, sampleSize)] :
                boot' = performBootstrapping(sampleSize, iterations, beatSamples,
                                             meetSamples, missSamples)
    /\ pc' = "bootstrapped"
    /\ UNCHANGED <<stocksMap, beatGroup, meetGroup, missGroup, marketPrices,
                   marketReturns, dataLoaded, nRetrieve, nRecalc, unit>>

\* performBootstrapping returns: its locals are gone, runAnalysis is back at
\* the menu.
BootstrappingReturns ==
    /\ pc = "bootstrapped"
    /\ pc' = "menu"
    /\ boot' = NoBoot
    /\ UNCHANGED <<stocksMap, beatGroup, meetGroup, missGroup, marketPrices,
                   marketReturns, dataLoaded, nRetrieve, nRecalc, unit>>

\* Menu choice 3: displayStockInfo reads the stock it prints (getStock,
\* getSurprisePercentage and getGroup are reads) and writes to std::cout only.
DisplayStockInfo ==
    /\ pc = "menu"
    /\ dataLoaded
    /\ UNCHANGED vars

\* Menu choices 4 and 5: displayGroupMetrics prints aar or caar of one group.
DisplayGroupMetrics ==
    /\ pc = "menu"
    /\ dataLoaded
    /\ UNCHANGED vars

\* Menu choice 6: exportCAARtoCSV writes the three caar to a file, or returns
\* at once when the file does not open.
ExportCAARtoCSV ==
    /\ pc = "menu"
    /\ dataLoaded
    /\ UNCHANGED vars

Next ==
    \/ LoadFile
    \/ LoadFileFails
    \/ RetrieveHistoricalData
    \/ CalculateGroupMetrics
    \/ DisplayStockInfo
    \/ DisplayGroupMetrics
    \/ ExportCAARtoCSV
    \/ PerformBootstrapping
    \/ BootstrappingReturns
    \/ BootstrappingThrows

Spec == Init /\ [][Next]_vars

(***************************************************************************)
(* StockAnalyzer::retrieveHistoricalData statement by statement.  pc is    *)
(* the statement that runs next; unit holds the locals of the call:        *)
(*   pair   - the position of the map iterator, as an index of SymbolOrder *)
(*            (past its end: stocksMap.end()),                             *)
(*   count  - the counter of line 281,                                     *)
(*   prices - the vector of line 287.                                      *)
(***************************************************************************)
\* The first key of map at or after position k: begin() and operator++ of the
\* iterator of the range-for.
RECURSIVE NextKey(_, _)
NextKey(map, k) ==
    IF k > Len(SymbolOrder) THEN k
    ELSE IF SymbolOrder[k] \in DOMAIN map THEN k
    ELSE NextKey(map, k + 1)

\* Menu choice 2, line 277: marketPrices = marketData.fetchHistoricalData("SPY").
RetrieveMarketPrices ==
    /\ pc = "menu"
    /\ dataLoaded
    /\ nRetrieve < MaxRetrieve
    /\ \E spy \in fetchHistoricalData("SPY") : marketPrices' = spy
    /\ unit' = [op |-> "retrieveHistoricalData", pair |-> 0, count |-> 0,
                prices |-> << >>]
    /\ nRetrieve' = nRetrieve + 1
    /\ pc' = "calculateMarketReturns"
    /\ UNCHANGED <<stocksMap, beatGroup, meetGroup, missGroup, marketReturns,
                   dataLoaded, boot, nRecalc>>

\* Line 278, and the range-for takes stocksMap.begin().
RetrieveMarketReturns ==
    /\ pc = "calculateMarketReturns"
    /\ marketReturns' = calculateMarketReturns(marketPrices)
    /\ unit' = [unit EXCEPT !.pair = NextKey(stocksMap, 1)]
    /\ pc' = "for"
    /\ UNCHANGED <<stocksMap, beatGroup, meetGroup, missGroup, marketPrices,
                   dataLoaded, boot, nRetrieve, nRecalc>>

\* Lines 283-290: ++count, the fetch for the stock, stock.prices = prices.
RetrieveFetchPrices ==
    /\ pc = "for"
    /\ unit.pair <= Len(SymbolOrder)
    /\ \E prices \in fetchHistoricalData(SymbolOrder[unit.pair]) :
          /\ unit' = [unit EXCEPT !.count = @ + 1, !.prices = prices]
          /\ stocksMap' = [stocksMap EXCEPT ![SymbolOrder[unit.pair]].prices = prices]
    /\ pc' = "calculateReturns"
    /\ UNCHANGED <<beatGroup, meetGroup, missGroup, marketPrices, marketReturns,
                   dataLoaded, boot, nRetrieve, nRecalc>>

\* Line 293: stock.calculateReturns().
RetrieveCalculateReturns ==
    /\ pc = "calculateReturns"
    /\ stocksMap' = [stocksMap EXCEPT
                        ![SymbolOrder[unit.pair]] = calculateReturns(@)]
    /\ pc' = "calculateAbnormalReturns"
    /\ UNCHANGED <<beatGroup, meetGroup, missGroup, marketPrices, marketReturns,
                   dataLoaded, boot, nRetrieve, nRecalc, unit>>

\* Line 296: stock.calculateAbnormalReturns(marketReturns).
RetrieveCalculateAbnormalReturns ==
    /\ pc = "calculateAbnormalReturns"
    /\ stocksMap' = [stocksMap EXCEPT
                        ![SymbolOrder[unit.pair]] =
                            calculateAbnormalReturns(@, marketReturns)]
    /\ pc' = "addStock"
    /\ UNCHANGED <<beatGroup, meetGroup, missGroup, marketPrices, marketReturns,
                   dataLoaded, boot, nRetrieve, nRecalc, unit>>

\* The statement of lines 299-305 run right after stock.prices = prices.
RetrieveAddStockEarly ==
    /\ pc = "calculateReturns"
    /\ LET symbol == SymbolOrder[unit.pair]
           group == getGroup(stocksMap[symbol])
       IN  /\ beatGroup' = IF group = "Beat" THEN addStock(beatGroup, symbol)
                           ELSE beatGroup
           /\ meetGroup' = IF group = "Meet" THEN addStock(meetGroup, symbol)
                           ELSE meetGroup
           /\ missGroup' = IF group \notin {"Beat", "Meet"}
                           THEN addStock(missGroup, symbol) ELSE missGroup
    /\ unit' = [unit EXCEPT !.pair = NextKey(stocksMap, @ + 1)]
    /\ pc' = "for"
    /\ UNCHANGED <<stocksMap, marketPrices, marketReturns, dataLoaded, boot,
                   nRetrieve, nRecalc>>

\* Lines 299-308: the stock is added to the group getGroup names, and the
\* iterator moves on.
RetrieveAddStock ==
    /\ pc = "addStock"
    /\ LET symbol == SymbolOrder[unit.pair]
           group == getGroup(stocksMap[symbol])
       IN  /\ beatGroup' = IF group = "Beat" THEN addStock(beatGroup, symbol)
                           ELSE beatGroup
           /\ meetGroup' = IF group = "Meet" THEN addStock(meetGroup, symbol)
                           ELSE meetGroup
           /\ missGroup' = IF group \notin {"Beat", "Meet"}
                           THEN addStock(missGroup, symbol) ELSE missGroup
    /\ unit' = [unit EXCEPT !.pair = NextKey(stocksMap, @ + 1)]
    /\ pc' = "for"
    /\ UNCHANGED <<stocksMap, marketPrices, marketReturns, dataLoaded, boot,
                   nRetrieve, nRecalc>>

\* Line 312, past the end of the loop: calculateGroupMetrics(), and the call
\* returns to the menu.
RetrieveCalculateGroupMetrics ==
    /\ pc = "for"
    /\ unit.pair > Len(SymbolOrder)
    /\ LET a == calculateGroupMetrics(Analyzer)
       IN  /\ beatGroup' = a.beat
           /\ meetGroup' = a.meet
           /\ missGroup' = a.miss
    /\ unit' = NoUnit
    /\ pc' = "menu"
    /\ UNCHANGED <<stocksMap, marketPrices, marketReturns, dataLoaded, boot,
                   nRetrieve, nRecalc>>

NextRetrieve ==
    \/ LoadFile
    \/ LoadFileFails
    \/ RetrieveMarketPrices
    \/ RetrieveMarketReturns
    \/ RetrieveFetchPrices
    \/ RetrieveCalculateReturns
    \/ RetrieveCalculateAbnormalReturns
    \/ RetrieveAddStock
    \/ RetrieveCalculateGroupMetrics

SpecRetrieve == Init /\ [][NextRetrieve]_vars

(***************************************************************************)
(* Unit specifications: one Stock and one MarketData, their methods called *)
(* one at a time.  unit is [op, stock, marketPrices, marketReturns, ...]:  *)
(* op names the method that ran last.  The analyzer's variables stay as    *)
(* Init leaves them.                                                       *)
(***************************************************************************)
PriceVals == {1, 2}

AnalyzerIdle ==
    /\ stocksMap = << >>
    /\ beatGroup = Group
    /\ meetGroup = Group
    /\ missGroup = Group
    /\ marketPrices = << >>
    /\ marketReturns = << >>
    /\ dataLoaded = FALSE
    /\ pc = "menu"
    /\ boot = NoBoot
    /\ nRetrieve = 0
    /\ nRecalc = 0

analyzerVars ==
    <<stocksMap, beatGroup, meetGroup, missGroup, marketPrices, marketReturns,
      dataLoaded, pc, boot, nRetrieve, nRecalc>>

\* A Stock as its constructor leaves it, and a MarketData that has returned
\* nothing yet.
InitStock ==
    /\ AnalyzerIdle
    /\ unit = [op |-> "Stock", stock |-> Stock(20, 20),
               marketPrices |-> << >>, marketReturns |-> << >>]

\* Stock::addPrice
addPrice(stock, price) == [stock EXCEPT !.prices = Append(@, price)]

StockAddPrice ==
    /\ Len(unit.stock.prices) < MaxPrices
    /\ \E price \in PriceVals :
          unit' = [unit EXCEPT !.op = "addPrice", !.stock = addPrice(@, price)]
    /\ UNCHANGED analyzerVars

StockCalculateReturns ==
    /\ unit' = [unit EXCEPT !.op = "calculateReturns",
                            !.stock = calculateReturns(@)]
    /\ UNCHANGED analyzerVars

\* MarketData::calculateMarketReturns(marketPrices), argument and result.
StockCalculateMarketReturns ==
    /\ \E len \in 0..MaxPrices : \E prices \in [1..len -> PriceVals] :
          unit' = [unit EXCEPT !.op = "calculateMarketReturns",
                               !.marketPrices = prices,
                               !.marketReturns = calculateMarketReturns(prices)]
    /\ UNCHANGED analyzerVars

\* stock.calculateAbnormalReturns(marketReturns)
StockCalculateAbnormalReturns ==
    /\ unit' = [unit EXCEPT !.op = "calculateAbnormalReturns",
                            !.stock = calculateAbnormalReturns(@, unit.marketReturns)]
    /\ UNCHANGED analyzerVars

NextStock ==
    \/ StockAddPrice
    \/ StockCalculateReturns
    \/ StockCalculateMarketReturns
    \/ StockCalculateAbnormalReturns

SpecStock == InitStock /\ [][NextStock]_vars

\* A Stock constructed from any pair of EPS fields.
InitClassify ==
    /\ AnalyzerIdle
    /\ \E eps \in (-MaxEPS)..MaxEPS, actual \in (-MaxEPS)..MaxEPS :
          unit = [op |-> "Stock", stock |-> Stock(eps, actual)]

\* stock.getSurprisePercentage() and stock.getGroup(), as displayStockInfo
\* prints them.
StockGetGroup ==
    /\ unit.op = "Stock"
    /\ unit' = [op |-> "getGroup", stock |-> unit.stock,
                surprise |-> getSurprisePercentage(unit.stock),
                group |-> getGroup(unit.stock)]
    /\ UNCHANGED analyzerVars

NextClassify == StockGetGroup

SpecClassify == InitClassify /\ [][NextClassify]_vars

(***************************************************************************)
(* Properties of the group aggregates.                                     *)
(***************************************************************************)
Groups == <<beatGroup, meetGroup, missGroup>>

\* The abnormal return stock m contributes on day d: its own, or 0 past its end.
Contribution(m, d) ==
    IF d <= Len(stocksMap[m].abnormalReturns)
    THEN stocksMap[m].abnormalReturns[d]
    ELSE Zero

RECURSIVE DaySum(_, _, _)
DaySum(stocks, k, d) ==
    IF k > Len(stocks) THEN Zero
    ELSE RAdd(Contribution(stocks[k], d), DaySum(stocks, k + 1, d))

RECURSIVE PrefixSum(_, _)
PrefixSum(v, d) == IF d = 0 THEN Zero ELSE RAdd(PrefixSum(v, d - 1), v[d])

\* C1: a second calculateAAR / calculateCAAR on a group whose members and
\* their abnormalReturns are unchanged leaves aar and caar as the first run
\* left them.  (Every run of calculateGroupMetrics on its own follows the run
\* that ended the last retrieval, on the same members and abnormal returns.)
C1_SecondRunIdentical ==
    [][(/\ nRecalc' = nRecalc + 1
        /\ stocksMap' = stocksMap
        /\ beatGroup'.stocks = beatGroup.stocks
        /\ meetGroup'.stocks = meetGroup.stocks
        /\ missGroup'.stocks = missGroup.stocks)
       => (/\ beatGroup' = beatGroup
           /\ meetGroup' = meetGroup
           /\ missGroup' = missGroup)]_vars

\* The aar of one group against the members' abnormal returns.
AARFormula(group) ==
    group.stocks # << >> =>
        /\ Len(group.aar) = Len(stocksMap[group.stocks[1]].abnormalReturns)
        /\ \A d \in 1..Len(group.aar) :
              group.aar[d] = RDiv(DaySum(group.stocks, 1, d),
                                  FromInt(Len(group.stocks)))

\* C2: the aar of a group with at least one member has the length of its
\* first member's abnormalReturns, and on each day is the sum of all members'
\* contributions divided by the number of members.
C2_AARFormula == \A g \in 1..3 : AARFormula(Groups[g])

\* The caar of one group against its aar.
CAARPrefixSums(group) ==
    /\ Len(group.caar) = Len(group.aar)
    /\ \A d \in 1..Len(group.aar) : group.caar[d] = PrefixSum(group.aar, d)

\* C3: caar is as long as aar and caar[d] is the sum of aar[1..d]; an empty
\* aar gives an empty caar.
C3_CAARPrefixSums == \A g \in 1..3 : CAARPrefixSums(Groups[g])

\* C3 witness: calculateCAAR has run on an aar of two non-zero days while
\* another group's aar is empty.
C3_Witness ==
    /\ nRetrieve >= 1
    /\ \E g \in 1..3 :
          /\ Len(Groups[g].aar) = 2
          /\ Groups[g].aar[1] # Zero
          /\ Groups[g].aar[2] # Zero
          /\ Groups[g].caar[2] # Groups[g].aar[2]
    /\ \E g \in 1..3 : Groups[g].aar = << >> /\ Groups[g].caar = << >>

(***************************************************************************)
(* Properties of performBootstrapping, read at its end or at its throw.    *)
(***************************************************************************)
\* The least length among the CAARs (there is at least one).
MinLen(CAARs) ==
    CHOOSE n \in {Len(CAARs[i]) : i \in DOMAIN CAARs} :
        \A i \in DOMAIN CAARs : n <= Len(CAARs[i])

RECURSIVE IterationSum(_, _, _)
IterationSum(CAARs, i, d) ==
    IF i = 0 THEN Zero ELSE RAdd(IterationSum(CAARs, i - 1, d), CAARs[i][d])

Averaged(CAARs, avg) ==
    /\ Len(CAARs) = boot.iterations
    /\ Len(avg) = MinLen(CAARs)
    /\ \A d \in 1..Len(avg) :
          avg[d] = RDiv(IterationSum(CAARs, boot.iterations, d),
                        FromInt(boot.iterations))
    /\ boot.iterations = 1 => avg = CAARs[1]

\* C4: with iterations >= 1 each group's averaged CAAR is as long as the
\* shortest of its per-iteration CAARs and is their day-by-day sum divided by
\* iterations; with one iteration it is that iteration's CAAR.
C4_AveragedCAAR ==
    (pc = "bootstrapped" /\ boot.iterations >= 1) =>
        /\ Averaged(boot.beatCAARs, boot.avgBeatCAAR)
        /\ Averaged(boot.meetCAARs, boot.avgMeetCAAR)
        /\ Averaged(boot.missCAARs, boot.avgMissCAAR)

\* C4 witness: two iterations whose CAARs for one group differ in length and
\* in their first day, and a non-empty average.
C4_Witness ==
    /\ pc = "bootstrapped"
    /\ boot.iterations = 2
    /\ \E g \in {<<boot.beatCAARs, boot.avgBeatCAAR>>,
                 <<boot.meetCAARs, boot.avgMeetCAAR>>,
                 <<boot.missCAARs, boot.avgMissCAAR>>} :
          /\ Len(g[1][1]) = 2
          /\ Len(g[1][2]) = 1
          /\ g[1][1][1] # g[1][2][1]
          /\ Len(g[2]) = 1

\* One sample against the claim: all of the members when sampleSize reaches
\* their number, else sampleSize of them (none, for a negative sampleSize),
\* none taken more often than it is a member.
SampleContract(group, sample) ==
    IF boot.sampleSize >= Len(group.stocks)
    THEN sample = group.stocks
    ELSE /\ Len(sample) = (IF boot.sampleSize < 0 THEN 0 ELSE boot.sampleSize)
         /\ \A x \in Range(sample) :
               /\ x \in Range(group.stocks)
               /\ Count(sample, x) <= Count(group.stocks, x)

\* C5: every sample drawn by sampleStocks(sampleSize) is the whole member
\* list when sampleSize >= the number of members, and otherwise sampleSize
\* members, none drawn twice.
C5_SampleContract ==
    pc = "bootstrapped" =>
        \A i \in 1..boot.iterations :
            /\ SampleContract(beatGroup, boot.beatSamples[i])
            /\ SampleContract(meetGroup, boot.meetSamples[i])
            /\ SampleContract(missGroup, boot.missSamples[i])

\* C6: a call with iterations <= 0 or sampleSize <= 0 is rejected with an
\* error: nothing is sampled, nothing is averaged or written, and the groups
\* stay as they were.
C6_BadArgumentsRejected ==
    [][(/\ pc = "menu"
        /\ boot'.called
        /\ (boot'.iterations <= 0 \/ boot'.sampleSize <= 0))
       => (/\ boot'.threw
           /\ boot'.beatSamples = << >>
           /\ boot'.meetSamples = << >>
           /\ boot'.missSamples = << >>
           /\ boot'.beatCAARs = << >>
           /\ boot'.meetCAARs = << >>
           /\ boot'.missCAARs = << >>
           /\ ~boot'.exported
           /\ beatGroup' = beatGroup
           /\ meetGroup' = meetGroup
           /\ missGroup' = missGroup)]_vars

\* C7: a company whose fetch yielded no prices is in no group.
C7_FailedFetchSkipped ==
    \A s \in DOMAIN stocksMap :
        (nRetrieve >= 1 /\ stocksMap[s].prices = << >>) =>
            \A g \in 1..3 : s \notin Range(Groups[g].stocks)

(***************************************************************************)
(* Properties of the Stock and MarketData methods (unit specifications).   *)
(***************************************************************************)
\* returns is the return series of prices: one shorter (empty below two
\* prices), with returns[i] * prices[i] = prices[i+1] - prices[i].
ReturnsOf(prices, returns) ==
    /\ Len(returns) = (IF Len(prices) >= 1 THEN Len(prices) - 1 ELSE 0)
    /\ \A i \in 1..Len(returns) :
          returns[i].num * prices[i] = (prices[i + 1] - prices[i]) * returns[i].den

\* C8: after calculateAbnormalReturns(marketReturns), abnormalReturns has
\* min(len(returns), len(marketReturns)) elements and abnormalReturns[i] is
\* returns[i] - marketReturns[i]; nothing of its former content is left.
C8_AbnormalReturns ==
    unit.op = "calculateAbnormalReturns" =>
        /\ Len(unit.stock.abnormalReturns)
              = Min(Len(unit.stock.returns), Len(unit.marketReturns))
        /\ \A i \in 1..Len(unit.stock.abnormalReturns) :
              RAdd(unit.stock.abnormalReturns[i], unit.marketReturns[i])
                 = unit.stock.returns[i]

\* C8 witness: a result of one element from two returns and one market
\* return, different from zero.
C8_Witness ==
    /\ unit.op = "calculateAbnormalReturns"
    /\ Len(unit.stock.returns) = 2
    /\ Len(unit.marketReturns) = 1
    /\ Len(unit.stock.abnormalReturns) = 1
    /\ unit.stock.abnormalReturns[1] # Zero

\* C10: calculateReturns and calculateMarketReturns turn n >= 1 prices into
\* n - 1 returns, return i taken from prices i and i + 1, and fewer than two
\* prices into no return.
C10_Returns ==
    /\ unit.op = "calculateReturns" =>
          ReturnsOf(unit.stock.prices, unit.stock.returns)
    /\ unit.op = "calculateMarketReturns" =>
          ReturnsOf(unit.marketPrices, unit.marketReturns)

\* C10 witness: three prices, two returns that differ.
C10_Witness ==
    /\ unit.op = "calculateReturns"
    /\ Len(unit.stock.prices) = 3
    /\ Len(unit.stock.returns) = 2
    /\ unit.stock.returns[1] # unit.stock.returns[2]
    /\ unit.stock.returns[1] # Zero

\* C9: getGroup is Beat exactly when the surprise (actualEPS - epsEstimate)
\* / |epsEstimate| * 100 is above 5, Miss exactly when it is below -5, Meet
\* otherwise (at exactly 5 and -5 too); the surprise of an epsEstimate of 0
\* is 0, which is a Meet.
C9_Classification ==
    unit.op = "getGroup" =>
        LET e == unit.stock.epsEstimate
            a == unit.stock.actualEPS
        IN  /\ unit.group \in {"Beat", "Meet", "Miss"}
            /\ e = 0 => unit.surprise = Zero /\ unit.group = "Meet"
            /\ e # 0 =>
                  /\ unit.surprise.num * Abs(e) = 100 * (a - e) * unit.surprise.den
                  /\ unit.group = "Beat" <=> 100 * (a - e) > 5 * Abs(e)
                  /\ unit.group = "Miss" <=> 100 * (a - e) < (-5) * Abs(e)

\* C9 witness: a surprise of exactly -5 against a negative estimate, a Meet.
C9_Witness ==
    /\ unit.op = "getGroup"
    /\ unit.stock.epsEstimate = -20
    /\ unit.stock.actualEPS = -21
    /\ unit.surprise = FromInt(-5)
    /\ unit.group = "Meet"

(***************************************************************************)
(* Properties of the order of the statements of retrieveHistoricalData     *)
(* (stepwise specification).                                               *)
(***************************************************************************)
\* The companies whose loop body has run to its end in the current call.
Processed ==
    {SymbolOrder[j] : j \in 1..Min(unit.pair - 1, Len(SymbolOrder))}
        \cap DOMAIN stocksMap

\* stock carries the fetched prices, the returns of these prices and the
\* abnormal returns of these returns against marketReturns.
StockComplete(stock, prices) ==
    /\ stock.prices = prices
    /\ ReturnsOf(stock.prices, stock.returns)
    /\ Len(stock.abnormalReturns) = Min(Len(stock.returns), Len(marketReturns))
    /\ \A i \in 1..Len(stock.abnormalReturns) :
          RAdd(stock.abnormalReturns[i], marketReturns[i]) = stock.returns[i]

\* C11: in retrieveHistoricalData a company is added to a group only once its
\* prices are attached and its returns and abnormalReturns are computed from
\* them; the groups' aar and caar are computed only when every company has
\* been through the loop; and abnormalReturns are computed only against
\* market returns already derived from the market prices of the call.
C11_Ordering ==
    [][/\ \A g \in 1..3 :
             Groups[g].stocks' # Groups[g].stocks =>
                 /\ Len(Groups[g].stocks') = Len(Groups[g].stocks) + 1
                 /\ StockComplete(stocksMap[Groups[g].stocks'[Len(Groups[g].stocks')]],
                                  unit.prices)
                 /\ ReturnsOf(marketPrices, marketReturns)
                 /\ stocksMap' = stocksMap
       /\ ((\E g \in 1..3 : \/ Groups[g].aar' # Groups[g].aar
                            \/ Groups[g].caar' # Groups[g].caar)
           \/ (pc = "for" /\ pc' = "menu"))
             => /\ Processed = DOMAIN stocksMap
                /\ unit.count = Cardinality(DOMAIN stocksMap)
                /\ \A s \in DOMAIN stocksMap :
                      \E h \in 1..3 : s \in Range(Groups[h].stocks)
       /\ (pc = "calculateAbnormalReturns" /\ pc' # pc)
             => ReturnsOf(marketPrices, marketReturns)]_vars

\* C11 witness: in the second retrieval the second company, its prices
\* attached and its returns and abnormal returns computed, is about to be
\* added, the first company is through the loop, and the groups still hold
\* the aggregates of the first retrieval.
C11_Witness ==
    /\ pc = "addStock"
    /\ nRetrieve = 2
    /\ unit.pair = 2
    /\ Processed = {"A"}
    /\ stocksMap["B"].prices = Provider["B"]
    /\ stocksMap["B"].abnormalReturns # << >>
    /\ stocksMap["A"].abnormalReturns # << >>
    /\ \E g \in 1..3 : Groups[g].aar # << >>

(***************************************************************************)
(* Properties of the analyzer's persistent state across menu operations.   *)
(***************************************************************************)
GroupNames == <<"Beat", "Meet", "Miss">>

\* How often symbol s stands in the three member lists taken together.
Memberships(s) ==
    Count(beatGroup.stocks, s) + Count(meetGroup.stocks, s)
        + Count(missGroup.stocks, s)

\* C12: whatever menu operations have run, every loaded company stands at
\* most once in the member lists of the Beat, Meet and Miss groups taken
\* together, and only in the group its classification names.
C12_MembershipOnce ==
    \A s \in DOMAIN stocksMap :
        /\ Memberships(s) <= 1
        /\ \A g \in 1..3 :
              s \in Range(Groups[g].stocks) => getGroup(stocksMap[s]) = GroupNames[g]

\* The state that outlives a call of performBootstrapping: the groups'
\* member lists, aar and caar, and every company's series.
Persistent ==
    <<beatGroup, meetGroup, missGroup,
      [s \in DOMAIN stocksMap |->
          <<stocksMap[s].prices, stocksMap[s].returns, stocksMap[s].abnormalReturns>>]>>

\* C13: a call of performBootstrapping with sampleSize >= 1 and
\* iterations >= 1 leaves the groups' member lists, aar and caar and every
\* company's prices, returns and abnormalReturns as they were, at its end and
\* when it has returned.
C13_BootstrappingFrame ==
    [][/\ (/\ pc = "menu"
           /\ pc' = "bootstrapped"
           /\ boot'.sampleSize >= 1
           /\ boot'.iterations >= 1) => Persistent' = Persistent
       /\ (/\ pc = "bootstrapped"
           /\ boot.sampleSize >= 1
           /\ boot.iterations >= 1
           /\ pc' = "menu") => Persistent' = Persistent]_vars

\* C13 witness: at the end of a call with sampleSize 1 and two iterations, a
\* group of at least two members with a non-empty aar was sampled, the two
\* iterations drew different members, and a temporary group's caar is not
\* empty.
C13_Witness ==
    /\ pc = "bootstrapped"
    /\ boot.sampleSize = 1
    /\ boot.iterations = 2
    /\ \E g \in {<<beatGroup, boot.beatSamples, boot.beatCAARs>>,
                 <<meetGroup, boot.meetSamples, boot.meetCAARs>>,
                 <<missGroup, boot.missSamples, boot.missCAARs>>} :
          /\ Len(g[1].stocks) >= 2
          /\ g[1].aar # << >>
          /\ g[2][1] # g[2][2]
          /\ g[3][1] # << >>

====
